---- MODULE Spec2Model ----
(***************************************************************************)
(* Model of batsignal's battery module (battery.c / battery.h):            *)
(* discovery and validation of power-supply devices, the inotify watcher   *)
(* threads, the timed wait that recomputes the aggregate state, and        *)
(* init/uninit of the shared BatteryState.                                 *)
(*                                                                         *)
(* Devices are identified by small integers (the position of the name in   *)
(* the names array, 1-based; the C code's index is that minus one).        *)
(***************************************************************************)
EXTENDS Integers, Sequences, FiniteSets, TLC

(* ------------------------------ bounds -------------------------------- *)
\* number of power-supply devices in the device tree / in an aggregate
MaxDev == 2
\* length of the name list handed to validate_batteries
MaxNames == 3
\* capacity of the inotify event queue (fs.inotify.max_queued_events);
\* events that do not fit are dropped by the kernel
MaxQueue == 1
\* CLOCK_REALTIME is followed up to this many seconds
MaxClock == 2

Dev == 1..MaxDev

(* --------------------------- sysfs files ------------------------------ *)
(* A file is a record [st, v]: st = "enoent" (fopen/access fails), "eof"   *)
(* (opens, but fscanf meets end of input or a read error before any        *)
(* conversion and returns EOF), "junk" (opens, the conversion does not     *)
(* match and fscanf returns 0) or "ok" (fscanf converts v and returns 1).  *)
NoFile == [st |-> "enoent", v |-> 0]
EmptyFile == [st |-> "eof", v |-> 0]
JunkFile == [st |-> "junk", v |-> 0]
Num(n) == [st |-> "ok", v |-> n]
\* text files (type, status): v is the first whitespace-delimited token
NoText == [st |-> "enoent", v |-> ""]
EmptyText == [st |-> "eof", v |-> ""]
Tok(s) == [st |-> "ok", v |-> s]
POWER_SUPPLY_FULL == "Full"
POWER_SUPPLY_DISCHARGING == "Discharging"

\* result of fopen(path, "r") != NULL, and of access(path, F_OK) == 0
Exists(f) == f.st # "enoent"
\* return value of fscanf(file, fmt, &x) with one conversion
Fscanf(f) == IF f.st = "ok" THEN 1 ELSE IF f.st = "junk" THEN 0 ELSE -1

Attrs == {"charge_now", "charge_full", "energy_now", "energy_full", "capacity"}

\* one directory of /sys/class/power_supply; dir = FALSE: no such entry
Device(dir, type, status, cn, cf, en, ef, cap) ==
  [dir |-> dir, type |-> type, status |-> status, charge_now |-> cn,
   charge_full |-> cf, energy_now |-> en, energy_full |-> ef, capacity |-> cap]

NoDevice == Device(FALSE, NoText, NoText, NoFile, NoFile, NoFile, NoFile, NoFile)

VARIABLES
  tree,       \* the device tree: Dev -> Device record
  rootOK,     \* opendir(POWER_SUPPLY_SUBSYSTEM) succeeds
  findRes,    \* last find_batteries call: [done, count, names]
  valRes,     \* last validate_batteries call: [done, names, ret]
  battery,    \* the BatteryState the handle points to
  proc,       \* "running", "exited" (err(EXIT_FAILURE)) or "crashed"
  openFds,    \* the process's open file descriptors
  ino,        \* the inotify instance: [open, fd, watches, queued]
  wstate,     \* per device index: position of its watcher thread
  cancelReq,  \* per device index: a cancellation request is pending
  cpc,        \* position of the thread calling wait_for_update_battery_state
  loc,        \* that call's locals
  tpc,        \* position of the thread calling uninit_batteries
  ti,         \* uninit_batteries' loop index
  clock,      \* CLOCK_REALTIME, a timespec
  hist        \* history of the current call (read only by the properties)

vars == <<tree, rootOK, findRes, valRes, battery, proc, openFds, ino, wstate,
          cancelReq, cpc, loc, tpc, ti, clock, hist>>

(* --------------------- attribute scheme, is_battery ------------------- *)
NULL == "NULL"

\* set_attributes: <<now_attribute, full_attribute>> of a device
set_attributes(battery_name) ==
  IF Exists(tree[battery_name].charge_now)
  THEN <<"charge_now", "charge_full">>
  ELSE IF Exists(tree[battery_name].energy_now)
       THEN <<"energy_now", "energy_full">>
       ELSE <<"capacity", NULL>>

\* char type[11] = ""; a token is stored only when fscanf converts one
is_type_battery(name) ==
  LET file == tree[name].type
      type == IF Exists(file) /\ Fscanf(file) = 1 THEN file.v ELSE ""
  IN  type = "Battery"

has_capacity_field(name) ==
  LET now_attribute == set_attributes(name)[1]
      file == tree[name].capacity
      capacity == IF now_attribute = "capacity"
                  THEN IF Exists(file) /\ Fscanf(file) = 1 THEN file.v ELSE -1
                  ELSE 1
  IN  capacity >= 0

is_battery(name) == is_type_battery(name) /\ has_capacity_field(name)

(* ------------------------- find_batteries ----------------------------- *)
\* the readdir loop over the entries in enumeration order; names is
\* *battery_names so far (battery_count = Len(names))
RECURSIVE find_loop(_, _)
find_loop(entries, names) ==
  IF entries = <<>> THEN names
  ELSE find_loop(Tail(entries),
                 IF is_battery(Head(entries))
                 THEN Append(names, Head(entries))
                 ELSE names)

\* every enumeration order readdir may produce for the entries present
DirOrders ==
  LET present == {d \in Dev : tree[d].dir}
  IN  {s \in [1..Cardinality(present) -> present] :
         \A i, j \in DOMAIN s : i # j => s[i] # s[j]}

FindBatteries ==
  /\ proc = "running" /\ ~findRes.done
  /\ \E entries \in DirOrders :
       LET names == IF rootOK THEN find_loop(entries, <<>>) ELSE <<>>
       IN  findRes' = [done |-> TRUE, count |-> Len(names), names |-> names]
  /\ UNCHANGED <<tree, rootOK, valRes, battery, proc, openFds, ino, wstate,
                 cancelReq, cpc, loc, tpc, ti, clock, hist>>

(* ------------------------ validate_batteries -------------------------- *)
\* the for loop from index i (0-based) on, with return_value so far
RECURSIVE validate_loop_last(_, _, _)
validate_loop_last(battery_names, i, return_value) ==
  IF i >= Len(battery_names) THEN return_value
  ELSE validate_loop_last(battery_names, i + 1,
                          IF ~is_battery(battery_names[i + 1])
                          THEN i
                          ELSE return_value)

RECURSIVE validate_loop(_, _, _)
validate_loop(battery_names, i, return_value) ==
  IF i >= Len(battery_names) THEN return_value
  ELSE validate_loop(battery_names, i + 1,
                     IF ~is_battery(battery_names[i + 1]) /\ return_value < 0
                     THEN i
                     ELSE return_value)

validate_batteries(battery_names) == validate_loop(battery_names, 0, -1)

\* the name lists a caller may pass (any devices, repeats allowed)
NameLists == UNION {[1..n -> Dev] : n \in 0..MaxNames}

ValidateBatteries ==
  /\ proc = "running" /\ ~valRes.done
  /\ \E names \in NameLists :
       valRes' = [done |-> TRUE, names |-> names,
                  ret |-> validate_batteries(names)]
  /\ UNCHANGED <<tree, rootOK, findRes, battery, proc, openFds, ino, wstate,
                 cancelReq, cpc, loc, tpc, ti, clock, hist>>

(* --------------------------- the handle ------------------------------- *)
\* a NULL array pointer (calloc failed, or never assigned in the zeroed
\* struct); arrays of an initialised handle have count >= 1 elements
NullArr == <<>>

\* the BatteryState before init_batteries has run
NoHandle ==
  [names |-> <<>>, count |-> 0, discharging |-> FALSE, full |-> FALSE,
   level |-> 0, energy_full |-> 0, energy_now |-> 0, inotify_fd |-> 0,
   watch_fds |-> NullArr, thread_ids |-> NullArr, watching |-> NULL,
   bat_state_change |-> NULL, state_change_mut |-> NULL]

\* stdin, stdout, stderr
StdFds == {0, 1, 2}
NoInotify == [open |-> FALSE, fd |-> -1, watches |-> {}, queued |-> 0]

\* the first point at which init_batteries gives up, if any
InitFailures == {"none", "cond", "watching", "inotify", "watch_fds", "thread_ids"}
\* per device, the outcome of the body of the registration loop
\* ("nothread_id": pthread_create failed after storing an id in
\* thread_ids[i], whose contents are unspecified on failure)
DevOutcomes == {"nowatch", "nowrapper", "nothread", "nothread_id", "thread"}

\* the watch descriptor inotify_add_watch returns for device i: the
\* kernel numbers the watches of an instance 1, 2, ... in creation order
WatchDescriptor(out, i) == Cardinality({j \in 1..i : out[j] # "nowatch"})

\* battery as init_batteries returns it for battery_count devices, when it
\* gives up at `fail` and the loop body ends per device as `out` says;
\* fd is what inotify_init returned
init_batteries(battery_count, fail, out, fd) ==
  LET b0 == [NoHandle EXCEPT !.names = [i \in 1..battery_count |-> i],
                             !.count = battery_count]
      b1 == [b0 EXCEPT !.bat_state_change = "cond", !.state_change_mut = "mutex"]
      b2 == [b1 EXCEPT !.watching = "true"]
      b3 == [b2 EXCEPT !.inotify_fd = fd]
      b4 == [b3 EXCEPT !.watch_fds = [i \in 1..battery_count |-> 0]]
      b5 == [b4 EXCEPT !.thread_ids = [i \in 1..battery_count |-> 0]]
  IN  CASE fail = "cond" -> b0
        [] fail = "watching" -> b1
        [] fail = "inotify" -> b3
        [] fail = "watch_fds" -> b3
        [] fail = "thread_ids" -> b4
        [] OTHER ->
             [b5 EXCEPT
                !.watch_fds = [i \in 1..battery_count |->
                                 IF out[i] = "nowatch" THEN -1
                                 ELSE WatchDescriptor(out, i)],
                !.thread_ids = [i \in 1..battery_count |->
                                  IF out[i] = "thread" THEN i
                                  ELSE IF out[i] = "nothread_id" THEN -1
                                  ELSE 0]]

\* lowest descriptor not in use, as inotify_init allocates it
LowestFreeFd == CHOOSE n \in 0..(Cardinality(openFds)) :
                  n \notin openFds /\ \A m \in 0..(n - 1) : m \in openFds

\* (a registration loop that went on to create the thread after
\* inotify_add_watch had failed)
InitBatteriesNoContinue ==
  /\ proc = "running" /\ tpc = "start"
  /\ \E battery_count \in 1..MaxDev, fail \in InitFailures :
     \E out \in [1..battery_count -> DevOutcomes] :
       LET opened == fail \notin {"cond", "watching", "inotify"}
           fd == IF fail = "inotify" THEN -1 ELSE LowestFreeFd
           complete == fail = "none"
       IN  /\ battery' = init_batteries(battery_count, fail, out, fd)
           /\ openFds' = IF opened THEN openFds \cup {fd} ELSE openFds
           /\ ino' = IF opened
                     THEN [open |-> TRUE, fd |-> fd, queued |-> 0,
                           watches |-> IF complete
                                       THEN {i \in 1..battery_count :
                                               out[i] # "nowatch"}
                                       ELSE {}]
                     ELSE NoInotify
           /\ wstate' = [i \in Dev |->
                           IF complete /\ i <= battery_count
                              /\ out[i] \in {"thread", "nowatch"}
                           THEN "loop" ELSE "none"]
  /\ tpc' = "ready"
  /\ UNCHANGED <<tree, rootOK, findRes, valRes, proc, cancelReq, cpc, loc,
                 ti, clock, hist>>

InitBatteries ==
  /\ proc = "running" /\ tpc = "start"
  /\ \E battery_count \in 1..MaxDev, fail \in InitFailures :
     \E out \in [1..battery_count -> DevOutcomes] :
       LET opened == fail \notin {"cond", "watching", "inotify"}
           fd == IF fail = "inotify" THEN -1 ELSE LowestFreeFd
           complete == fail = "none"
       IN  /\ battery' = init_batteries(battery_count, fail, out, fd)
           /\ openFds' = IF opened THEN openFds \cup {fd} ELSE openFds
           /\ ino' = IF opened
                     THEN [open |-> TRUE, fd |-> fd, queued |-> 0,
                           watches |-> IF complete
                                       THEN {i \in 1..battery_count :
                                               out[i] # "nowatch"}
                                       ELSE {}]
                     ELSE NoInotify
           /\ wstate' = [i \in Dev |->
                           IF complete /\ i <= battery_count /\ out[i] = "thread"
                           THEN "loop" ELSE "none"]
  /\ tpc' = "ready"
  /\ UNCHANGED <<tree, rootOK, findRes, valRes, proc, cancelReq, cpc, loc,
                 ti, clock, hist>>

(* ----------------------- the wake condition --------------------------- *)
\* pthread_cond_signal / pthread_cond_broadcast on bat_state_change: a
\* thread blocked in pthread_cond_timedwait leaves the wait; with no
\* thread waiting the signal is lost
CondSignal ==
  /\ cpc' = IF cpc = "waiting" THEN "loop" ELSE cpc
  /\ hist' = IF cpc = "waiting"
             THEN [hist EXCEPT !.wake = "signal", !.modSinceWake = FALSE,
                               !.modBefore = @ \/ hist.modSinceWake]
             ELSE hist

(* --------------------- watch_for_file_changes ------------------------- *)
\* while (bat->battery->watching): the pointer is tested, not the flag
WatcherTest(i) ==
  /\ proc = "running" /\ wstate[i] = "loop"
  /\ IF battery.watching # NULL
     THEN wstate' = [wstate EXCEPT ![i] = "read"]
     ELSE \* printf("Thread stopped") is a cancellation point
          \E end \in IF cancelReq[i] THEN {"exited", "cancelled"} ELSE {"exited"} :
            wstate' = [wstate EXCEPT ![i] = end]
  /\ UNCHANGED <<tree, rootOK, findRes, valRes, battery, proc, openFds, ino,
                 cancelReq, cpc, loc, tpc, ti, clock, hist>>

\* read(inotify_fd) returns the queued events (all fit in the buffer)
WatcherRead(i) ==
  /\ proc = "running" /\ wstate[i] = "read" /\ ~cancelReq[i]
  /\ battery.inotify_fd \in openFds /\ ino.open /\ ino.fd = battery.inotify_fd
  /\ ino.queued > 0
  /\ ino' = [ino EXCEPT !.queued = 0]
  /\ wstate' = [wstate EXCEPT ![i] = "signal"]
  /\ UNCHANGED <<tree, rootOK, findRes, valRes, battery, proc, openFds,
                 cancelReq, cpc, loc, tpc, ti, clock, hist>>

\* (a watcher that went back to its loop after a failed read)
WatcherReadRetry(i) ==
  /\ proc = "running" /\ wstate[i] = "read" /\ ~cancelReq[i]
  /\ wstate' = [wstate EXCEPT ![i] = "loop"]
  /\ UNCHANGED <<tree, rootOK, findRes, valRes, battery, proc, openFds, ino,
                 cancelReq, cpc, loc, tpc, ti, clock, hist>>

\* read returns -1 (EINTR from a signal handler, EBADF, an I/O error):
\* perror, printf, return NULL
WatcherReadError(i) ==
  /\ proc = "running" /\ wstate[i] = "read" /\ ~cancelReq[i]
  /\ wstate' = [wstate EXCEPT ![i] = "exited"]
  /\ UNCHANGED <<tree, rootOK, findRes, valRes, battery, proc, openFds, ino,
                 cancelReq, cpc, loc, tpc, ti, clock, hist>>

\* read is a cancellation point: a pending pthread_cancel ends the thread
\* there, whether it is about to block or already blocked
WatcherCancelled(i) ==
  /\ proc = "running" /\ wstate[i] = "read" /\ cancelReq[i]
  /\ wstate' = [wstate EXCEPT ![i] = "cancelled"]
  /\ UNCHANGED <<tree, rootOK, findRes, valRes, battery, proc, openFds, ino,
                 cancelReq, cpc, loc, tpc, ti, clock, hist>>

\* (a watcher that reset the aggregate itself before signalling)
WatcherSignalResets(i) ==
  /\ proc = "running" /\ wstate[i] = "signal"
  /\ wstate' = [wstate EXCEPT ![i] = "loop"]
  /\ CondSignal
  /\ battery' = [battery EXCEPT !.discharging = FALSE, !.full = TRUE,
                                 !.energy_now = 0, !.energy_full = 0]
  /\ UNCHANGED <<tree, rootOK, findRes, valRes, proc, openFds, ino,
                 cancelReq, loc, tpc, ti, clock>>

\* pthread_cond_signal(bat->battery->bat_state_change)
WatcherSignal(i) ==
  /\ proc = "running" /\ wstate[i] = "signal"
  /\ wstate' = [wstate EXCEPT ![i] = "loop"]
  /\ CondSignal
  /\ UNCHANGED <<tree, rootOK, findRes, valRes, battery, proc, openFds, ino,
                 cancelReq, loc, tpc, ti, clock>>

(* -------------------------- the environment --------------------------- *)
\* an event on a watched status file is queued unless the queue is full
Queue(q, i) ==
  IF q.open /\ i \in q.watches /\ q.queued < MaxQueue
  THEN [q EXCEPT !.queued = q.queued + 1]
  ELSE q

\* the kernel rewrites the status file of device d (IN_MODIFY)
FileModify(d) ==
  /\ proc = "running" /\ tree[d].status.st = "ok"
  /\ \E s \in {POWER_SUPPLY_FULL, POWER_SUPPLY_DISCHARGING} :
       /\ s # tree[d].status.v
       /\ tree' = [tree EXCEPT ![d].status = Tok(s)]
  /\ ino' = Queue(ino, d)
  /\ hist' = [hist EXCEPT !.modSinceWake = TRUE]
  /\ UNCHANGED <<rootOK, findRes, valRes, battery, proc, openFds, wstate,
                 cancelReq, cpc, loc, tpc, ti, clock>>

(* ------------------------------ time ---------------------------------- *)
\* nanoseconds per second: a timespec is valid iff 0 <= tv_nsec < Billion
Billion == 1000000000
\* CLOCK_REALTIME advances in steps of half a second
TickNsec == Billion \div 2

Timespec(sec, nsec) == [tv_sec |-> sec, tv_nsec |-> nsec]

\* the timeouts a caller passes
Timeouts == {Timespec(0, 0), Timespec(0, TickNsec), Timespec(1, 0)}

\* the clock has reached the absolute time ts
Reached(ts) ==
  \/ clock.tv_sec > ts.tv_sec
  \/ clock.tv_sec = ts.tv_sec /\ clock.tv_nsec >= ts.tv_nsec

Tick ==
  /\ proc = "running" /\ clock.tv_sec < MaxClock
  /\ clock' = IF clock.tv_nsec + TickNsec >= Billion
              THEN Timespec(clock.tv_sec + 1, clock.tv_nsec + TickNsec - Billion)
              ELSE Timespec(clock.tv_sec, clock.tv_nsec + TickNsec)
  /\ UNCHANGED <<tree, rootOK, findRes, valRes, battery, proc, openFds, ino,
                 wstate, cancelReq, cpc, loc, tpc, ti, hist>>

(* ------------------- wait_for_update_battery_state -------------------- *)
IntMax == 2147483647
\* int += unsigned int: the sum is formed modulo 2^32 and converted back
\* to int (a an int, u in 0..IntMax)
AddInt(a, u) ==
  IF a > IntMax - u THEN ((a - IntMax) - 1) + ((u - IntMax) - 1) ELSE a + u
\* what (int) of a NaN or an infinity yields on the supported builds
UndefinedInt == {(-IntMax) - 1, 0, IntMax}

\* contents an uninitialised state[] / tmp_now / tmp_full may show
GarbageStates == {POWER_SUPPLY_FULL, POWER_SUPPLY_DISCHARGING, "?"}
GarbageCounters == {0, 7}

\* the locals outside a call
NoLocals ==
  [required |-> FALSE, ts |-> Timespec(0, 0), now_attribute |-> NULL,
   full_attribute |-> NULL, i |-> 0, state |-> "", state_set |-> FALSE,
   tmp_now |-> 0, now_set |-> FALSE, tmp_full |-> 0, full_set |-> FALSE]

\* again: the call is not the first on the handle; wake: why the wait
\* ended; reads: how often each device was read in the call;
\* modSinceWake: a status file was rewritten since the last wait ended;
\* modBefore: one was rewritten between the previous wake and this one
NoHistory == [again |-> FALSE, wake |-> "none", reads |-> [d \in Dev |-> 0],
              modSinceWake |-> FALSE, modBefore |-> FALSE, required |-> FALSE]

\* the aggregate as the call's first four assignments leave it
reset_no_energy(b) == [b EXCEPT !.discharging = FALSE, !.full = TRUE]
reset(b) ==
  [b EXCEPT !.discharging = FALSE, !.full = TRUE,
            !.energy_now = 0, !.energy_full = 0]

\* entry up to pthread_cond_timedwait: the aggregate is reset, the scheme
\* is resolved from names[0], the deadline is clock + timeout without
\* normalising tv_nsec; an invalid deadline makes the wait return EINVAL
\* at once
WaitCall(required, timeout) ==
  /\ proc = "running" /\ tpc # "start" /\ cpc \in {"idle", "returned"}
  /\ clock.tv_sec + timeout.tv_sec < MaxClock
  /\ IF battery.state_change_mut = NULL
     THEN \* pthread_mutex_lock(NULL)
          /\ proc' = "crashed"
          /\ UNCHANGED <<battery, cpc, loc, hist>>
     ELSE LET attrs == set_attributes(battery.names[1])
              ts == Timespec(clock.tv_sec + timeout.tv_sec,
                             clock.tv_nsec + timeout.tv_nsec)
              einval == ts.tv_nsec >= Billion
          IN  /\ battery' = reset(battery)
              /\ loc' = [NoLocals EXCEPT !.required = required, !.ts = ts,
                                         !.now_attribute = attrs[1],
                                         !.full_attribute = attrs[2]]
              /\ cpc' = IF einval THEN "loop" ELSE "waiting"
              /\ hist' = [NoHistory EXCEPT
                            !.again = cpc = "returned",
                            !.wake = IF einval THEN "einval" ELSE "none",
                            !.modBefore = hist.modSinceWake,
                            !.required = required]
              /\ proc' = proc
  /\ UNCHANGED <<tree, rootOK, findRes, valRes, openFds, ino, wstate,
                 cancelReq, tpc, ti, clock>>

\* (an untimed pthread_cond_wait would never time out)
WaitUntimed == FALSE /\ UNCHANGED vars

\* pthread_cond_timedwait returns ETIMEDOUT
WaitTimeout ==
  /\ proc = "running" /\ cpc = "waiting" /\ Reached(loc.ts)
  /\ cpc' = "loop"
  /\ hist' = [hist EXCEPT !.wake = "timeout", !.modSinceWake = FALSE,
                          !.modBefore = @ \/ hist.modSinceWake]
  /\ UNCHANGED <<tree, rootOK, findRes, valRes, battery, proc, openFds, ino,
                 wstate, cancelReq, loc, tpc, ti, clock>>

\* discharging |= ...; full &= ...
status_step_last(b, state) ==
  [b EXCEPT !.discharging = state = POWER_SUPPLY_DISCHARGING,
            !.full = state = POWER_SUPPLY_FULL]
status_step(b, state) ==
  [b EXCEPT !.discharging = b.discharging \/ state = POWER_SUPPLY_DISCHARGING,
            !.full = b.full /\ state = POWER_SUPPLY_FULL]

\* energy_now += tmp_now; energy_full += tmp_full
energy_step(b, tmp_now, tmp_full) ==
  [b EXCEPT !.energy_now = AddInt(b.energy_now, tmp_now),
            !.energy_full = AddInt(b.energy_full, tmp_full)]

\* the for loop's condition i < battery->count fails
loop_done_early(l, b) == l.i >= b.count - 1
loop_done(l, b) == l.i >= b.count

\* one pass of the for loop, for the device at index l.i: the result is
\* [fatal, battery, loc]; gs, gn, gf are what an uninitialised state[],
\* tmp_now, tmp_full would show if read
loop_body(b, l, gs, gn, gf) ==
  LET dev == tree[b.names[l.i + 1]]
      next == [l EXCEPT !.i = l.i + 1]
      sfile == dev.status
  IN
  IF ~Exists(sfile) \/ Fscanf(sfile) = 0
  THEN [fatal |-> l.required, battery |-> b, loc |-> next]
  ELSE
    LET sset == l.state_set \/ Fscanf(sfile) = 1
        state == IF Fscanf(sfile) = 1 THEN sfile.v
                 ELSE IF l.state_set THEN l.state ELSE gs
        b1 == status_step(b, state)
        l1 == [next EXCEPT !.state = IF sset THEN state ELSE l.state,
                           !.state_set = sset]
        nfile == dev[l.now_attribute]
    IN
    IF ~Exists(nfile) \/ Fscanf(nfile) = 0
    THEN [fatal |-> l.required, battery |-> b1, loc |-> l1]
    ELSE
      LET nset == l.now_set \/ Fscanf(nfile) = 1
          tmp_now == IF Fscanf(nfile) = 1 THEN nfile.v
                     ELSE IF l.now_set THEN l.tmp_now ELSE gn
          l2 == [l1 EXCEPT !.tmp_now = IF nset THEN tmp_now ELSE l.tmp_now,
                           !.now_set = nset]
          ffile == IF l.full_attribute # NULL THEN dev[l.full_attribute]
                   ELSE Num(100)
      IN
      IF ~Exists(ffile) \/ Fscanf(ffile) = 0
      THEN [fatal |-> l.required, battery |-> b1, loc |-> l2]
      ELSE
        LET fset == l.full_set \/ Fscanf(ffile) = 1
            tmp_full == IF Fscanf(ffile) = 1 THEN ffile.v
                        ELSE IF l.full_set THEN l.tmp_full ELSE gf
            l3 == [l2 EXCEPT !.tmp_full = IF fset THEN tmp_full ELSE l.tmp_full,
                             !.full_set = fset]
        IN  [fatal |-> FALSE, battery |-> energy_step(b1, tmp_now, tmp_full),
             loc |-> l3]

\* the contents of a local that file is read into: any garbage if the
\* read stores nothing (EOF) and nothing was stored before, else irrelevant
Indeterminate(garbage, file, isset) ==
  IF file.st = "eof" /\ ~isset THEN garbage ELSE {CHOOSE g \in garbage : TRUE}

WaitLoop ==
  /\ proc = "running" /\ cpc = "loop" /\ ~loop_done(loc, battery)
  /\ \E gs \in Indeterminate(GarbageStates,
                              tree[battery.names[loc.i + 1]].status,
                              loc.state_set),
        gn \in Indeterminate(GarbageCounters,
                              tree[battery.names[loc.i + 1]][loc.now_attribute],
                              loc.now_set),
        gf \in Indeterminate(GarbageCounters,
                              IF loc.full_attribute # NULL
                              THEN tree[battery.names[loc.i + 1]][loc.full_attribute]
                              ELSE Num(100),
                              loc.full_set) :
       LET r == loop_body(battery, loc, gs, gn, gf)
       IN  IF r.fatal
           THEN \* err(EXIT_FAILURE, "Could not read %s", attr_path)
                /\ proc' = "exited" /\ cpc' = "fatal"
                /\ UNCHANGED <<battery, loc>>
           ELSE /\ battery' = r.battery /\ loc' = r.loc
                /\ UNCHANGED <<proc, cpc>>
  \* fopen and fscanf of an existing status file raise IN_ACCESS
  /\ ino' = IF Exists(tree[battery.names[loc.i + 1]].status)
            THEN Queue(ino, loc.i + 1) ELSE ino
  /\ hist' = [hist EXCEPT !.reads[loc.i + 1] = @ + 1]
  /\ UNCHANGED <<tree, rootOK, findRes, valRes, openFds, wstate, cancelReq,
                 tpc, ti, clock>>

\* round(x / y) as C's round computes it: halves away from zero
Round(x, y) ==
  LET ax == IF x < 0 THEN -x ELSE x
      ay == IF y < 0 THEN -y ELSE y
      q == (2 * ax + ay) \div (2 * ay)
  IN  IF (x < 0) = (y < 0) THEN q ELSE -q

\* the values (int) round(100.0 * energy_now / energy_full) may yield:
\* 0.0 / 0 is a NaN and x / 0 an infinity, whose conversion is undefined
Level(energy_now, energy_full) ==
  IF energy_full = 0 THEN UndefinedInt
  ELSE {Round(100 * energy_now, energy_full)}

WaitFinish ==
  /\ proc = "running" /\ cpc = "loop" /\ loop_done(loc, battery)
  /\ \E level \in Level(battery.energy_now, battery.energy_full) :
       battery' = [battery EXCEPT !.level = level]
  /\ cpc' = "returned"
  /\ loc' = NoLocals
  /\ UNCHANGED <<tree, rootOK, findRes, valRes, proc, openFds, ino, wstate,
                 cancelReq, tpc, ti, clock, hist>>

(* -------------------------- uninit_batteries -------------------------- *)
\* what using a thread id that names no thread (0 from calloc, or what a
\* failed pthread_create left) in pthread_cancel / pthread_join may do:
\* fault, or fail with ESRCH
BadThreadOutcomes == {"crash", "esrch"}

\* entry: nothing is done when inotify_fd is -1; else the watching
\* pointer is overwritten with false (NULL)
UninitBegin ==
  /\ proc = "running" /\ tpc = "ready"
  /\ IF battery.inotify_fd = -1
     THEN /\ tpc' = "done" /\ UNCHANGED battery
     ELSE /\ battery' = [battery EXCEPT !.watching = NULL]
          /\ tpc' = IF battery.thread_ids # NullArr THEN "cancel" ELSE "broadcast"
  /\ ti' = 0
  /\ UNCHANGED <<tree, rootOK, findRes, valRes, proc, openFds, ino, wstate,
                 cancelReq, cpc, loc, clock, hist>>

\* pthread_cancel(battery->thread_ids[i])
UninitCancel ==
  /\ proc = "running" /\ tpc = "cancel"
  /\ IF battery.thread_ids[ti + 1] # ti + 1
     THEN \E o \in BadThreadOutcomes :
            /\ proc' = IF o = "crash" THEN "crashed" ELSE proc
            /\ UNCHANGED cancelReq
     ELSE /\ cancelReq' = [cancelReq EXCEPT ![ti + 1] = TRUE]
          /\ UNCHANGED proc
  /\ tpc' = "join"
  /\ UNCHANGED <<tree, rootOK, findRes, valRes, battery, openFds, ino, wstate,
                 cpc, loc, ti, clock, hist>>

\* (a join that did not wait for the thread to terminate)
UninitJoinNoWait ==
  /\ proc = "running" /\ tpc = "join"
  /\ IF battery.thread_ids[ti + 1] # ti + 1
     THEN \E o \in BadThreadOutcomes :
            proc' = IF o = "crash" THEN "crashed" ELSE proc
     ELSE UNCHANGED proc
  /\ ti' = ti + 1
  /\ tpc' = IF ti + 1 < battery.count THEN "cancel" ELSE "broadcast"
  /\ UNCHANGED <<tree, rootOK, findRes, valRes, battery, openFds, ino, wstate,
                 cancelReq, cpc, loc, clock, hist>>

\* pthread_join(battery->thread_ids[i], NULL) returns once the thread
\* has terminated
UninitJoin ==
  /\ proc = "running" /\ tpc = "join"
  /\ IF battery.thread_ids[ti + 1] # ti + 1
     THEN \E o \in BadThreadOutcomes :
            proc' = IF o = "crash" THEN "crashed" ELSE proc
     ELSE /\ wstate[ti + 1] \in {"exited", "cancelled"}
          /\ UNCHANGED proc
  /\ ti' = ti + 1
  /\ tpc' = IF ti + 1 < battery.count THEN "cancel" ELSE "broadcast"
  /\ UNCHANGED <<tree, rootOK, findRes, valRes, battery, openFds, ino, wstate,
                 cancelReq, cpc, loc, clock, hist>>

\* pthread_cond_broadcast(battery->bat_state_change)
UninitBroadcast ==
  /\ proc = "running" /\ tpc = "broadcast"
  /\ IF battery.bat_state_change = NULL
     THEN /\ proc' = "crashed" /\ UNCHANGED <<cpc, hist, tpc>>
     ELSE /\ CondSignal
          /\ tpc' = IF battery.watch_fds # NullArr THEN "close_wd" ELSE "done"
          /\ UNCHANGED proc
  /\ ti' = 0
  /\ UNCHANGED <<tree, rootOK, findRes, valRes, battery, openFds, ino, wstate,
                 cancelReq, loc, clock>>

\* close(fd) on the process's descriptor table; closing the inotify
\* descriptor releases the instance and all its watches
Close(fd) ==
  /\ openFds' = openFds \ {fd}
  /\ ino' = IF ino.open /\ ino.fd = fd /\ fd \in openFds
            THEN [ino EXCEPT !.open = FALSE, !.watches = {}, !.queued = 0]
            ELSE ino

\* if (watch_fds[i] != -1) close(watch_fds[i])
UninitCloseWatch ==
  /\ proc = "running" /\ tpc = "close_wd"
  /\ IF battery.watch_fds[ti + 1] # -1
     THEN Close(battery.watch_fds[ti + 1])
     ELSE UNCHANGED <<openFds, ino>>
  /\ ti' = ti + 1
  /\ tpc' = IF ti + 1 < battery.count THEN "close_wd" ELSE "close_ino"
  /\ UNCHANGED <<tree, rootOK, findRes, valRes, battery, proc, wstate,
                 cancelReq, cpc, loc, clock, hist>>

\* close(battery->inotify_fd)
UninitCloseInotify ==
  /\ proc = "running" /\ tpc = "close_ino"
  /\ Close(battery.inotify_fd)
  /\ tpc' = "done"
  /\ UNCHANGED <<tree, rootOK, findRes, valRes, battery, proc, wstate,
                 cancelReq, cpc, loc, ti, clock, hist>>

(* --------------------------- specifications -------------------------- *)
Battery == Tok("Battery")

\* device-tree entries for discovery and validation: every branch of
\* is_type_battery and has_capacity_field is taken by one of them
DiscDevices ==
  {NoDevice}
  \cup {Device(TRUE, Battery, NoText, NoFile, NoFile, NoFile, NoFile, c) :
          c \in {NoFile, EmptyFile, JunkFile, Num(-1), Num(0), Num(50)}}
  \cup {Device(TRUE, Battery, NoText, Num(50), NoFile, NoFile, NoFile, NoFile),
        Device(TRUE, Battery, NoText, NoFile, NoFile, Num(30), Num(100), Num(-1)),
        Device(TRUE, Tok("Mains"), NoText, NoFile, NoFile, NoFile, NoFile, Num(50)),
        Device(TRUE, Tok("Mains"), NoText, Num(50), Num(100), NoFile, NoFile, NoFile),
        Device(TRUE, NoText, NoText, NoFile, NoFile, NoFile, NoFile, Num(50)),
        Device(TRUE, EmptyText, NoText, NoFile, NoFile, NoFile, NoFile, NoFile)}

\* batteries of an aggregate: every status outcome with readable
\* counters, and every counter outcome with a readable status
StatusFiles == {NoText, EmptyText, Tok(POWER_SUPPLY_FULL),
                Tok(POWER_SUPPLY_DISCHARGING), Tok("Charging")}
ChargeFiles ==
  {<<Num(30), Num(100)>>, <<Num(120), Num(100)>>, <<Num(50), Num(0)>>,
   <<EmptyFile, Num(100)>>, <<JunkFile, Num(100)>>,
   <<Num(50), NoFile>>, <<Num(50), EmptyFile>>, <<Num(50), JunkFile>>}
AggDevices ==
  {Device(TRUE, Battery, s, Num(50), Num(100), NoFile, NoFile, NoFile) :
     s \in StatusFiles}
  \cup {Device(TRUE, Battery, Tok(POWER_SUPPLY_DISCHARGING), c[1], c[2],
               NoFile, NoFile, NoFile) : c \in ChargeFiles}
  \cup {Device(TRUE, Battery, Tok(POWER_SUPPLY_FULL), NoFile, NoFile,
               Num(30), Num(100), NoFile),
        Device(TRUE, Battery, Tok(POWER_SUPPLY_FULL), NoFile, NoFile,
               NoFile, NoFile, Num(80)),
        Device(TRUE, Battery, Tok("Charging"), NoFile, NoFile,
               NoFile, NoFile, NoFile)}

\* batteries exposing every combination of the three schemes (a charge
\* pair, charge_now alone or no charge attribute; an energy pair or none;
\* a capacity percentage or none) that has a complete pair or a percentage
SchemeDevices ==
  {Device(TRUE, Battery, Tok(POWER_SUPPLY_FULL), c[1], c[2], e[1], e[2], p) :
     c \in {<<NoFile, NoFile>>, <<Num(30), Num(100)>>, <<Num(30), NoFile>>},
     e \in {<<NoFile, NoFile>>, <<Num(40), Num(200)>>},
     p \in {NoFile, Num(80)}}
  \ {Device(TRUE, Battery, Tok(POWER_SUPPLY_FULL), cn, NoFile, NoFile, NoFile,
             NoFile) : cn \in {Num(30), NoFile}}

\* batteries of a running system: all files readable
LiveDevices ==
  {Device(TRUE, Battery, Tok(s), Num(50), Num(100), NoFile, NoFile, NoFile) :
     s \in {POWER_SUPPLY_FULL, POWER_SUPPLY_DISCHARGING}}

\* the state of a process that has not called into the module yet
Fresh ==
  /\ findRes = [done |-> FALSE, count |-> 0, names |-> <<>>]
  /\ valRes = [done |-> FALSE, names |-> <<>>, ret |-> -1]
  /\ battery = NoHandle
  /\ proc = "running"
  /\ openFds = StdFds
  /\ ino = NoInotify
  /\ wstate = [i \in Dev |-> "none"]
  /\ cancelReq = [i \in Dev |-> FALSE]
  /\ cpc = "idle"
  /\ loc = NoLocals
  /\ tpc = "start"
  /\ ti = 0
  /\ clock = Timespec(0, 0)
  /\ hist = NoHistory

\* the whole module: init, watchers, the waiting caller, uninit; the
\* clock is not followed: a wait's deadline may be reached at any moment;
\* all files are readable, so that `required` makes no difference
Init ==
  /\ tree \in [Dev -> LiveDevices]
  /\ rootOK = TRUE
  /\ Fresh

Next ==
  \/ InitBatteries
  \/ \E i \in Dev : WatcherTest(i)
  \/ \E i \in Dev : WatcherRead(i)
  \/ \E i \in Dev : WatcherReadError(i)
  \/ \E i \in Dev : WatcherCancelled(i)
  \/ \E i \in Dev : WatcherSignal(i)
  \/ \E d \in Dev : FileModify(d)
  \/ WaitCall(FALSE, Timespec(0, 0))
  \/ WaitTimeout
  \/ WaitLoop
  \/ WaitFinish
  \/ UninitBegin
  \/ UninitCancel
  \/ UninitJoin
  \/ UninitBroadcast
  \/ UninitCloseWatch
  \/ UninitCloseInotify

Spec == Init /\ [][Next]_vars

\* discovery and validation over every device tree
InitDisc ==
  /\ tree \in [Dev -> DiscDevices]
  /\ rootOK \in BOOLEAN
  /\ Fresh

NextDisc == FindBatteries \/ ValidateBatteries

SpecDisc == InitDisc /\ [][NextDisc]_vars

\* a handle for the first n devices whose watch registrations all failed:
\* no watcher runs, every wait ends by its deadline
Unwatched(devices) ==
  /\ \E n \in 1..MaxDev :
       /\ tree \in {t \in [Dev -> devices \cup {NoDevice}] :
                      \A d \in Dev : (t[d] = NoDevice) <=> (d > n)}
       /\ battery = init_batteries(n, "none", [i \in 1..n |-> "nowatch"], 3)
  /\ rootOK = TRUE
  /\ findRes = [done |-> FALSE, count |-> 0, names |-> <<>>]
  /\ valRes = [done |-> FALSE, names |-> <<>>, ret |-> -1]
  /\ proc = "running"
  /\ openFds = StdFds \cup {3}
  /\ ino = [open |-> TRUE, fd |-> 3, watches |-> {}, queued |-> 0]
  /\ wstate = [i \in Dev |-> "none"]
  /\ cancelReq = [i \in Dev |-> FALSE]
  /\ cpc = "idle"
  /\ loc = NoLocals
  /\ tpc = "ready"
  /\ ti = 0
  /\ clock = Timespec(0, 0)
  /\ hist = NoHistory

\* the aggregation of wait_for_update_battery_state over every aggregate
\* of 1..MaxDev batteries
InitAgg == Unwatched(AggDevices)

NextAgg ==
  \/ \E required \in BOOLEAN : WaitCall(required, Timespec(0, 0))
  \/ WaitTimeout
  \/ WaitLoop
  \/ WaitFinish

SpecAgg == InitAgg /\ [][NextAgg]_vars

\* the aggregation over aggregates whose devices expose different schemes
InitScheme == Unwatched(SchemeDevices)

SpecScheme == InitScheme /\ [][NextAgg]_vars

\* the timed wait against the clock, for every timeout
InitTime == Unwatched(LiveDevices)

NextTime ==
  \/ \E required \in BOOLEAN, timeout \in Timeouts : WaitCall(required, timeout)
  \/ WaitTimeout
  \/ WaitLoop
  \/ WaitFinish
  \/ Tick

SpecTime == InitTime /\ [][NextTime]_vars

\* the clock advances and the calling thread is scheduled
FairTime ==
  SpecTime /\ WF_vars(Tick) /\ WF_vars(WaitTimeout) /\ WF_vars(WaitLoop)
           /\ WF_vars(WaitFinish)

\* a handle for the first n devices after an init in which every
\* allocation succeeded, each device watched by its thread or, where its
\* watch registration failed, not at all
InitWake ==
  /\ \E n \in 1..MaxDev : \E out \in [1..n -> {"nowatch", "thread"}] :
       /\ tree \in {t \in [Dev -> LiveDevices \cup {NoDevice}] :
                      \A d \in Dev : (t[d] = NoDevice) <=> (d > n)}
       /\ battery = init_batteries(n, "none", out, 3)
       /\ ino = [open |-> TRUE, fd |-> 3, queued |-> 0,
                 watches |-> {i \in 1..n : out[i] # "nowatch"}]
       /\ wstate = [i \in Dev |-> IF i <= n /\ out[i] = "thread"
                                  THEN "loop" ELSE "none"]
  /\ rootOK = TRUE
  /\ findRes = [done |-> FALSE, count |-> 0, names |-> <<>>]
  /\ valRes = [done |-> FALSE, names |-> <<>>, ret |-> -1]
  /\ proc = "running"
  /\ openFds = StdFds \cup {3}
  /\ cancelReq = [i \in Dev |-> FALSE]
  /\ cpc = "idle"
  /\ loc = NoLocals
  /\ tpc = "ready"
  /\ ti = 0
  /\ clock = Timespec(0, 0)
  /\ hist = NoHistory

\* the watchers, the kernel and the waiting caller between init and uninit
NextWake ==
  \/ \E i \in Dev : WatcherTest(i)
  \/ \E i \in Dev : WatcherRead(i)
  \/ \E i \in Dev : WatcherReadError(i)
  \/ \E i \in Dev : WatcherSignal(i)
  \/ \E d \in Dev : FileModify(d)
  \/ \E required \in BOOLEAN : WaitCall(required, Timespec(0, 0))
  \/ WaitTimeout
  \/ WaitLoop
  \/ WaitFinish

SpecWake == InitWake /\ [][NextWake]_vars

\* init, the watchers, the kernel and uninit, with no thread in
\* wait_for_update_battery_state
NextDown ==
  \/ InitBatteries
  \/ \E i \in Dev : WatcherTest(i)
  \/ \E i \in Dev : WatcherRead(i)
  \/ \E i \in Dev : WatcherReadError(i)
  \/ \E i \in Dev : WatcherCancelled(i)
  \/ \E i \in Dev : WatcherSignal(i)
  \/ \E d \in Dev : FileModify(d)
  \/ UninitBegin
  \/ UninitCancel
  \/ UninitJoin
  \/ UninitBroadcast
  \/ UninitCloseWatch
  \/ UninitCloseInotify

SpecDown == Init /\ [][NextDown]_vars

\* the watchers and the waiting caller against the clock when nothing
\* but the caller touches the status files
NextSelf ==
  \/ \E i \in Dev : WatcherTest(i)
  \/ \E i \in Dev : WatcherRead(i)
  \/ \E i \in Dev : WatcherReadError(i)
  \/ \E i \in Dev : WatcherSignal(i)
  \/ \E required \in BOOLEAN, timeout \in Timeouts : WaitCall(required, timeout)
  \/ WaitTimeout
  \/ WaitLoop
  \/ WaitFinish
  \/ Tick

SpecSelf == InitWake /\ [][NextSelf]_vars

(* ============================ properties ============================= *)

(* ---- C9 ---- *)
\* 0-based indices of the entries of the validated list that are no battery
InvalidIndices == {i \in 0..(Len(valRes.names) - 1) :
                     ~is_battery(valRes.names[i + 1])}

\* C9: validate_batteries returns the smallest index whose entry fails the
\* is-a-battery predicate, and -1 iff every entry passes, for every list
\* of 0..MaxNames names
C9_FirstInvalid ==
  valRes.done =>
    /\ (valRes.ret = -1) <=> (InvalidIndices = {})
    /\ InvalidIndices # {} =>
         /\ valRes.ret \in InvalidIndices
         /\ \A j \in InvalidIndices : valRes.ret <= j

\* a list whose first entry passes and which has two failing entries
C9_Witness ==
  /\ valRes.done /\ valRes.ret = 1
  /\ Cardinality(InvalidIndices) >= 2

(* ---- C10 ---- *)
\* capacity percentage read by fscanf("%d"), -1 if none is read
CapacityOf(d) ==
  IF tree[d].capacity.st = "ok" THEN tree[d].capacity.v ELSE -1

TypeIsBattery(d) == tree[d].type = Tok("Battery")

\* the usable capacity signal as the specification words it: a
\* non-negative percentage, or a charge or energy now/full pair
PairSignal(d) ==
  \/ CapacityOf(d) >= 0
  \/ Exists(tree[d].charge_now) /\ Exists(tree[d].charge_full)
  \/ Exists(tree[d].energy_now) /\ Exists(tree[d].energy_full)

Found == {findRes.names[k] : k \in 1..Len(findRes.names)}
NoDuplicates ==
  /\ findRes.count = Len(findRes.names)
  /\ \A j, k \in 1..Len(findRes.names) :
        j # k => findRes.names[j] # findRes.names[k]

\* C10 as stated: find_batteries returns exactly the entries of type
\* Battery with a percentage >= 0 or a now/full pair, none twice, and
\* nothing when the root cannot be opened
C10_ExactPairs ==
  findRes.done =>
    /\ NoDuplicates
    /\ Found = IF rootOK
               THEN {d \in Dev : tree[d].dir /\ TypeIsBattery(d) /\ PairSignal(d)}
               ELSE {}

(* ---- the aggregate, as the files of the tree determine it ---- *)
Count == battery.count
StatusAt(i) == tree[battery.names[i]].status
\* the counter files the call reads for device i: those of the scheme
\* resolved from the first device
NowFile(i) == tree[battery.names[i]][set_attributes(battery.names[1])[1]]
FullFile(i) ==
  IF set_attributes(battery.names[1])[2] = NULL THEN Num(100)
  ELSE tree[battery.names[i]][set_attributes(battery.names[1])[2]]

Unreadable(i) ==
  StatusAt(i).st # "ok" \/ NowFile(i).st # "ok" \/ FullFile(i).st # "ok"
Readable == {i \in 1..Count : ~Unreadable(i)}

RECURSIVE SumNow(_, _)
SumNow(n, among) ==
  IF n = 0 THEN 0
  ELSE (IF n \in among THEN NowFile(n).v ELSE 0) + SumNow(n - 1, among)
RECURSIVE SumFull(_, _)
SumFull(n, among) ==
  IF n = 0 THEN 0
  ELSE (IF n \in among THEN FullFile(n).v ELSE 0) + SumFull(n - 1, among)

\* l is x / y rounded to the nearest integer, halves upwards (x >= 0, y > 0)
Nearest(l, x, y) == -y < 2 * (x - l * y) /\ 2 * (x - l * y) <= y

(* ---- C2 ---- *)
\* C2: after every return of wait_for_update_battery_state, level is in
\* 0..100, whatever the counters and their readability, also when the
\* summed energy_full is 0 or less than the summed energy_now
C2_LevelInRange ==
  cpc = "returned" => battery.level \in 0..100

(* ---- C3 ---- *)
\* C3 as stated: after a return, full iff every device of the aggregate
\* has status Full and discharging iff some device has status
\* Discharging, also when a status file was unreadable and not required
C3_AllDevices ==
  cpc = "returned" =>
    /\ battery.full <=>
         \A i \in 1..Count : StatusAt(i) = Tok(POWER_SUPPLY_FULL)
    /\ battery.discharging <=>
         \E i \in 1..Count : StatusAt(i) = Tok(POWER_SUPPLY_DISCHARGING)

\* devices whose status file opens; the status the call evaluates for one
\* of them is its token, or for an empty file the token left in state[] by
\* the nearest earlier device that had one (indeterminate if there is none)
Opened == {i \in 1..Count : Exists(StatusAt(i))}
LastToken(i) ==
  LET had == {j \in 1..i : StatusAt(j).st = "ok"}
  IN  IF had = {} THEN 0 ELSE CHOOSE j \in had : \A k \in had : k <= j
Determined == {i \in Opened : LastToken(i) > 0}
Evaluated(i) == StatusAt(LastToken(i)).v

\* C3 amended: full iff every device whose status file opens is evaluated
\* as Full, discharging iff one of them is evaluated as Discharging;
\* devices whose status file does not open are left out (with an
\* indeterminate evaluation, what is determined still binds the result)
C3_OpenedDevices ==
  cpc = "returned" =>
    /\ battery.full => \A i \in Determined : Evaluated(i) = POWER_SUPPLY_FULL
    /\ (\E i \in Determined : Evaluated(i) = POWER_SUPPLY_DISCHARGING)
         => battery.discharging
    /\ Opened = Determined =>
         /\ (\A i \in Determined : Evaluated(i) = POWER_SUPPLY_FULL)
              => battery.full
         /\ battery.discharging =>
              \E i \in Determined : Evaluated(i) = POWER_SUPPLY_DISCHARGING

\* two devices: the status file of the first cannot be opened, the second
\* reports Full, and the aggregate is full
C3_Witness ==
  /\ cpc = "returned" /\ Count = 2 /\ ~hist.required
  /\ ~Exists(StatusAt(1)) /\ StatusAt(2) = Tok(POWER_SUPPLY_FULL)
  /\ battery.full /\ ~battery.discharging

C7_UnreadableFatalOrSkipped ==
  /\ cpc = "returned" /\ hist.required => Readable = 1..Count
  /\ cpc = "returned" /\ ~hist.required =>
       /\ battery.discharging <=>
            \E i \in Readable : StatusAt(i) = Tok(POWER_SUPPLY_DISCHARGING)
       /\ battery.full <=>
            \A i \in Readable : StatusAt(i) = Tok(POWER_SUPPLY_FULL)
       /\ battery.energy_now = SumNow(Count, Readable)
       /\ battery.energy_full = SumFull(Count, Readable)

(* ---- C1 ---- *)
\* C1: with no watcher signalling, a call that waits leaves the wait once
\* its deadline is reached and completes the recomputation, for every
\* timeout and 1..MaxDev devices
C1_WaitEnds == (cpc = "waiting") ~> (cpc = "returned")

\* a call with a deadline in the future returned after timing out
C1_Witness ==
  /\ cpc = "returned" /\ hist.wake = "timeout" /\ clock.tv_sec >= 1
  /\ Count = MaxDev

(* ---- C5 ---- *)
Running(i) == wstate[i] \in {"loop", "read", "signal"}

\* C5: once uninit_batteries has returned, no watcher thread runs and the
\* inotify instance with all its watches is released, whatever init did
C5_TeardownReleases ==
  tpc = "done" => /\ \A i \in Dev : ~Running(i)
                  /\ ~ino.open /\ ino.watches = {}

(* ---- C6 ---- *)
\* C6: no watcher is ever ended by a cancellation request acting on it
\* in read: watchers end only by returning from watch_for_file_changes
C6_NoCancellation == \A i \in Dev : wstate[i] # "cancelled"

(* ---- C8 ---- *)
\* C8: a call that returns has read every device exactly once, and if no
\* status file was rewritten after its wait ended, the aggregate it
\* leaves is that of the files as they are: nothing written before the
\* wake is missing, however many signals were sent
C8_OneFreshRecomputation ==
  cpc = "returned" =>
    /\ \A i \in 1..Count : hist.reads[i] = 1
    /\ ~hist.modSinceWake =>
         /\ battery.discharging <=>
              \E i \in 1..Count : StatusAt(i) = Tok(POWER_SUPPLY_DISCHARGING)
         /\ battery.full <=>
              \A i \in 1..Count : StatusAt(i) = Tok(POWER_SUPPLY_FULL)

\* a repeated call, woken by a watcher after a status file was rewritten
C8_Witness ==
  /\ cpc = "returned" /\ hist.again /\ hist.wake = "signal"
  /\ hist.modBefore /\ ~hist.modSinceWake /\ Count = MaxDev

(* ---- C11 ---- *)
\* discharging, full, level, energy_now, energy_full
Scalars == <<battery.discharging, battery.full, battery.level,
             battery.energy_now, battery.energy_full>>

\* C11: a step that changes a scalar field of the aggregate is a step of
\* the thread in wait_for_update_battery_state (its position or its
\* locals move) and not a step of any watcher
C11_OnlyCallerWrites ==
  [][Scalars' # Scalars =>
       /\ wstate' = wstate
       /\ cpc \in {"idle", "returned", "loop"}
       /\ cpc' # cpc \/ loc' # loc]_vars

\* a call woken by a watcher's signal has recomputed the aggregate while
\* a watcher is back in read
C11_Witness ==
  /\ cpc = "returned" /\ hist.wake = "signal" /\ battery.energy_full > 0
  /\ \E i \in Dev : wstate[i] = "read"

(* ---- C12 ---- *)
\* every resource init_batteries allocates is there
Allocated ==
  /\ battery.bat_state_change # NULL /\ battery.state_change_mut # NULL
  /\ battery.watching # NULL
  /\ battery.inotify_fd # -1 /\ battery.inotify_fd \in openFds
  /\ battery.watch_fds # NullArr
  /\ battery.thread_ids # NullArr

\* C12: a failed allocation in init_batteries ends the process: whenever
\* init_batteries has returned its handle to a running caller, every
\* resource was allocated
C12_AllocFailureFatal ==
  tpc = "ready" /\ proc = "running" => Allocated

(* ---- C13 ---- *)
\* C13 as stated: between the return of init_batteries and the call of
\* uninit_batteries every device of the aggregate has its watcher (the
\* handles of an init whose allocations all succeeded are enough to
\* decide it)
C13_OneWatcherEach ==
  tpc = "ready" /\ proc = "running" /\ Allocated =>
    \A i \in 1..battery.count : Running(i)

\* the thread init_batteries created for device i
Created(i) ==
  /\ i <= battery.count /\ battery.thread_ids # NullArr
  /\ battery.thread_ids[i] = i

\* C13 amended: between init and uninit a watcher runs only for a device
\* whose watch was registered and whose thread was created, and the
\* thread created for a device is its one watcher until it returns on a
\* read error
C13_WatcherIffCreated ==
  tpc = "ready" /\ proc = "running" =>
    \A i \in Dev :
      /\ Running(i) => Created(i) /\ i \in ino.watches
      /\ Created(i) => Running(i) \/ wstate[i] = "exited"

\* a device with its watcher next to one whose watch was registered but
\* for which init created no thread
C13_Witness ==
  /\ tpc = "ready" /\ proc = "running" /\ battery.count = MaxDev
  /\ \E i, j \in 1..MaxDev :
       /\ Running(i) /\ wstate[j] = "none" /\ battery.watch_fds[j] # -1

(* ---- C14 ---- *)
\* the timespec ts with tv_nsec carried into tv_sec: the instant now +
\* timeout that the sum at lines 285-286 stands for
Normalised(ts) ==
  IF ts.tv_nsec >= Billion
  THEN Timespec(ts.tv_sec + 1, ts.tv_nsec - Billion)
  ELSE ts

\* C14: when the call has left pthread_cond_timedwait and is about to
\* read the first device, a signal or broadcast was delivered to it or
\* the clock has reached now + timeout
C14_WakeOnlyOnSignalOrDeadline ==
  cpc = "loop" /\ loc.i = 0 =>
    hist.wake = "signal" \/ Reached(Normalised(loc.ts))

(* ---- C15 ---- *)
\* uninit_batteries is at or past pthread_cond_broadcast
AtOrPastBroadcast == tpc \in {"broadcast", "close_wd", "close_ino", "done"}
\* uninit_batteries is past pthread_cond_broadcast, at or past the closes
PastBroadcast == tpc \in {"close_wd", "close_ino", "done"}

\* C15: uninit_batteries requests no cancellation before it has cleared
\* watching; when it reaches the broadcast no watcher thread is left;
\* until it is past the broadcast no descriptor has been closed; and no
\* watcher is in its loop once the inotify descriptor has been closed
C15_TeardownOrder ==
  /\ (\E i \in Dev : cancelReq[i]) => battery.watching = NULL
  /\ AtOrPastBroadcast => \A i \in Dev : ~Running(i)
  /\ ~PastBroadcast =>
       /\ StdFds \subseteq openFds
       /\ ino.fd # -1 => ino.open /\ ino.fd \in openFds
  /\ ino.fd # -1 /\ ~ino.open => \A i \in Dev : ~Running(i)

\* uninit_batteries has returned on a handle with a watcher for every
\* device, one of them ended by cancellation, and has closed the channel
C15_Witness ==
  /\ tpc = "done" /\ proc = "running" /\ ~ino.open /\ battery.count = MaxDev
  /\ \A i \in 1..MaxDev : wstate[i] \in {"exited", "cancelled"}
  /\ \E i \in 1..MaxDev : wstate[i] = "cancelled"

(* ---- C16 ---- *)
\* C16: step by step, for every watcher: after a successful read its
\* next step is the signal, and it signals only after a successful read;
\* a read that fails ends the thread, which then never moves again; that
\* step changes nothing of the other watchers, the caller, the aggregate
\* or the channel; and a signal step wakes a caller that is waiting
C16_SignalPerRead ==
  [][\A i \in Dev :
       /\ wstate[i] = "signal" => wstate'[i] \in {"signal", "loop"}
       /\ wstate'[i] = "signal" => wstate[i] \in {"signal", "read"}
       /\ wstate[i] = "read" =>
            wstate'[i] \in {"read", "signal", "exited", "cancelled"}
       /\ wstate[i] \in {"exited", "cancelled"} => wstate'[i] = wstate[i]
       /\ wstate[i] = "read" /\ wstate'[i] = "exited" =>
            /\ \A j \in Dev \ {i} : wstate'[j] = wstate[j]
            /\ cpc' = cpc /\ loc' = loc /\ battery' = battery /\ ino' = ino
       /\ wstate[i] = "signal" /\ wstate'[i] = "loop" /\ cpc = "waiting" =>
            cpc' = "loop" /\ hist'.wake = "signal"]_vars

\* one watcher has returned on a read error, another has read events and
\* is about to signal the waiting caller
C16_Witness ==
  /\ cpc = "waiting"
  /\ \E i, j \in Dev : wstate[i] = "exited" /\ wstate[j] = "signal"

(* ---- C17 ---- *)
\* the scheme of device d by the priority the claim states: the charge
\* pair if d exposes it, else the energy pair if d exposes it, else the
\* capacity percentage with no full attribute
PairScheme(d) ==
  IF Exists(tree[d].charge_now) /\ Exists(tree[d].charge_full)
  THEN <<"charge_now", "charge_full">>
  ELSE IF Exists(tree[d].energy_now) /\ Exists(tree[d].energy_full)
       THEN <<"energy_now", "energy_full">>
       ELSE <<"capacity", NULL>>

\* the now and full values of device i under the scheme of the first
\* device (0 and unreadable where the file is missing)
SchemeNow(i) == tree[battery.names[i]][PairScheme(battery.names[1])[1]]
SchemeFull(i) ==
  IF PairScheme(battery.names[1])[2] = NULL THEN Num(100)
  ELSE tree[battery.names[i]][PairScheme(battery.names[1])[2]]
RECURSIVE SchemeSum(_, _)
SchemeSum(n, full) ==
  IF n = 0 THEN 0
  ELSE (IF full THEN SchemeFull(n).v ELSE SchemeNow(n).v)
         + SchemeSum(n - 1, full)

\* C17: the call reads with the scheme that this priority gives for the
\* first device, and sums the files of that scheme over all devices
\* whenever every device has them
C17_SchemeOfFirstDevice ==
  /\ cpc \in {"waiting", "loop"} =>
       <<loc.now_attribute, loc.full_attribute>> = PairScheme(battery.names[1])
  /\ cpc = "returned"
       /\ (\A i \in 1..Count : SchemeNow(i).st = "ok" /\ SchemeFull(i).st = "ok")
       => /\ battery.energy_now = SchemeSum(Count, FALSE)
          /\ battery.energy_full = SchemeSum(Count, TRUE)

(* ---- C18 ---- *)
\* C18: uninit_batteries closes no descriptor of the process but the
\* inotify descriptor: standard input, output and error stay open (the
\* handles of an init whose allocations all succeeded are enough to
\* decide it)
C18_OnlyInotifyClosed ==
  battery.thread_ids # NullArr => StdFds \subseteq openFds

(* ---- C19 ---- *)
\* C19: whenever uninit_batteries is about to call pthread_cancel or
\* pthread_join for an index, thread_ids holds there the id of the
\* thread init_batteries created for that device
C19_OnlyCreatedThreads ==
  tpc \in {"cancel", "join"} /\ proc = "running" => Created(ti + 1)

(* ---- C20 ---- *)
\* C20: with no status file rewritten by anything, no call is woken by
\* a signal before its deadline
C20_NoSelfWake ==
  cpc = "loop" /\ loc.i = 0 /\ hist.wake = "signal" =>
    Reached(Normalised(loc.ts))

====
